---- MODULE Spec2Model ----
(***************************************************************************)
(* Model of braintree.util.http.Http: one call of get / post / put /       *)
(* delete / post_multipart (or _make_request with the JSON content type),  *)
(* followed step by step from header construction to the value returned or *)
(* the exception raised.                                                   *)
(*                                                                         *)
(* Text is a sequence: credentials and header values are sequences of byte *)
(* codes (so base64 is computed, not assumed), paths and URLs are          *)
(* sequences of characters, response bodies are sequences of lexical       *)
(* tokens.                                                                 *)
(***************************************************************************)
EXTENDS Integers, Sequences, FiniteSets, TLC

VARIABLES
    config,      \* the Configuration the Http object was constructed over
    environment, \* self.environment of the Http object that runs http_do
    pc,          \* position of the call
    call,        \* arguments of the running _make_request
    request,     \* locals of _make_request: headers, request_body, full_path
    session,     \* the requests.Session of http_do: "none", "open", "closed"
    opened,      \* sessions opened by the call
    sends,       \* session.send invocations of the call
    wire,        \* what session.send was given: url, verify, data, files
    outcome,     \* what the transport produced: a response or an exception
    result       \* how the call ended: value returned or exception raised

vars == <<config, environment, pc, call, request, session, opened, sends, wire,
          outcome, result>>

----------------------------------------------------------------------------
(* Bounds *)

MaxBodyLen == 2
MaxPathLen == 3

----------------------------------------------------------------------------
(* Python values *)

\* None where a text (sequence of characters) is expected
None == <<"None">>
\* None where a byte string (sequence of codes 0..255) is expected
NoneBytes == <<-1>>

\* str.startswith / bytes.startswith
StartsWith(s, prefix) ==
    /\ Len(prefix) <= Len(s)
    /\ SubSeq(s, 1, Len(prefix)) = prefix

\* All sequences over alphabet of length at most n
RECURSIVE SeqsUpTo(_, _)
SeqsUpTo(alphabet, n) ==
    IF n = 0 THEN {<<>>}
    ELSE LET shorter == SeqsUpTo(alphabet, n - 1)
         IN  shorter \cup {Append(s, a) : s \in shorter, a \in alphabet}

\* str(status) for a non-negative int: its decimal digits
Digit(d) == <<"0", "1", "2", "3", "4", "5", "6", "7", "8", "9">>[d + 1]

RECURSIVE Str(_)
Str(n) == IF n < 10 THEN <<Digit(n)>> ELSE Append(Str(n \div 10), Digit(n % 10))

\* bytes.strip() / str.strip(): drop leading and trailing whitespace
RECURSIVE LStrip(_, _)
LStrip(s, ws) == IF s # <<>> /\ Head(s) \in ws THEN LStrip(Tail(s), ws) ELSE s

RECURSIVE RStrip(_, _)
RStrip(s, ws) ==
    IF s # <<>> /\ s[Len(s)] \in ws THEN RStrip(SubSeq(s, 1, Len(s) - 1), ws) ELSE s

Strip(s, ws) == RStrip(LStrip(s, ws), ws)

\* bytes.replace(b"\n", b"")
RemoveByte(s, b) == SelectSeq(s, LAMBDA c : c # b)

----------------------------------------------------------------------------
(* base64.encodebytes *)

NewLine == 10
PadByte == 61
AsciiWhitespace == {9, 10, 11, 12, 13, 32}

\* the base64 alphabet: A-Z a-z 0-9 + /
B64Char(i) ==
    IF i < 26 THEN 65 + i
    ELSE IF i < 52 THEN 97 + (i - 26)
    ELSE IF i < 62 THEN 48 + (i - 52)
    ELSE IF i = 62 THEN 43 ELSE 47

\* binascii.b2a_base64 without its trailing newline
RECURSIVE B2aBase64(_)
B2aBase64(s) ==
    IF Len(s) = 0 THEN <<>>
    ELSE IF Len(s) = 1 THEN
        <<B64Char(s[1] \div 4), B64Char((s[1] % 4) * 16), PadByte, PadByte>>
    ELSE IF Len(s) = 2 THEN
        <<B64Char(s[1] \div 4), B64Char((s[1] % 4) * 16 + s[2] \div 16),
          B64Char((s[2] % 16) * 4), PadByte>>
    ELSE
        <<B64Char(s[1] \div 4), B64Char((s[1] % 4) * 16 + s[2] \div 16),
          B64Char((s[2] % 16) * 4 + s[3] \div 64), B64Char(s[3] % 64)>>
        \o B2aBase64(SubSeq(s, 4, Len(s)))

\* base64.MAXBINSIZE: bytes of input per output line
MAXBINSIZE == 57

\* base64.encodebytes: every MAXBINSIZE bytes of input give one line ending in "\n"
RECURSIVE encodebytes(_)
encodebytes(s) ==
    IF Len(s) = 0 THEN <<>>
    ELSE IF Len(s) <= MAXBINSIZE THEN Append(B2aBase64(s), NewLine)
    ELSE Append(B2aBase64(SubSeq(s, 1, MAXBINSIZE)), NewLine)
         \o encodebytes(SubSeq(s, MAXBINSIZE + 1, Len(s)))

\* str.encode('ascii'): the same codes, or UnicodeEncodeError for a code above 127
IsAscii(s) == \A i \in 1..Len(s) : s[i] < 128

----------------------------------------------------------------------------
(* Configuration *)

Development == "Development"
Sandbox == "Sandbox"
Production == "Production"
Environments == {Development, Sandbox, Production}

\* "h/" stands for the merchant base URL, "hg" for the GraphQL base URL
PathChars == {"h", "/", "g"}

base_url(cfg) == cfg.base_url
graphql_base_url(cfg) == cfg.graphql_base_url

has_client_credentials(cfg) ==
    cfg.client_id # NoneBytes /\ cfg.client_secret # NoneBytes

has_access_token(cfg) == cfg.access_token # NoneBytes

\* credentials: "ci", "cs", "at", "pk" / "p\xe9" (not ASCII), "sk" / "s"
ClientCredentials == {<<NoneBytes, NoneBytes>>, <<<<99, 105>>, <<99, 115>>>>}
AccessTokens == {NoneBytes, <<97, 116>>}
KeyPairs == {<<NoneBytes, NoneBytes>>, <<<<112, 107>>, <<115, 107>>>>,
             <<<<112, 107>>, <<115>>>>, <<<<112, 233>>, <<115, 107>>>>}

Credentials ==
    {c \in ClientCredentials \X AccessTokens \X KeyPairs :
        ~(c[1][1] = NoneBytes /\ c[2] = NoneBytes /\ c[3][1] = NoneBytes)}

Config(env, wrap, cred) ==
    [environment |-> env,
     wrap_http_exceptions |-> wrap,
     client_id |-> cred[1][1],
     client_secret |-> cred[1][2],
     access_token |-> cred[2],
     public_key |-> cred[3][1],
     private_key |-> cred[3][2],
     base_url |-> <<"h", "/">>,
     graphql_base_url |-> <<"h", "g">>]

----------------------------------------------------------------------------
(* Values a call ends with *)

NoValue == [decoder |-> "none", of |-> <<>>]
\* the empty mapping {}
EmptyMapping == [decoder |-> "empty", of |-> <<>>]
\* the mapping a decoder builds from a document
Decoded(decoder, document) == [decoder |-> decoder, of |-> document]

NoResult == [kind |-> "none", class |-> "", args |-> <<>>, value |-> NoValue]
Return(v) == [kind |-> "return", class |-> "", args |-> <<>>, value |-> v]
Raise(class, args) == [kind |-> "raise", class |-> class, args |-> args, value |-> NoValue]

\* an exception object handed on as a constructor argument
ExceptionArg(class) == <<"exception", class>>

----------------------------------------------------------------------------
(* class Http *)

Xml == "application/xml"
Multipart == "multipart/form-data"
Json == "application/json"
ContentTypes == {Xml, Multipart, Json}

\* variant: 422 taken for an error status
is_error_status_without_422(status) == status \notin {200, 201, 204}

is_error_status(status) == status \notin {200, 201, 204, 422}

\* variant: the 429 branch is missing, 503 and 504 are exchanged
raise_exception_from_status_slipped(status, message) ==
    IF status = 401 THEN Raise("AuthenticationError", <<>>)
    ELSE IF status = 403 THEN Raise("AuthorizationError", <<message>>)
    ELSE IF status = 404 THEN Raise("NotFoundError", <<>>)
    ELSE IF status = 408 THEN Raise("RequestTimeoutError", <<>>)
    ELSE IF status = 426 THEN Raise("UpgradeRequiredError", <<>>)
    ELSE IF status = 500 THEN Raise("ServerError", <<>>)
    ELSE IF status = 503 THEN Raise("GatewayTimeoutError", <<>>)
    ELSE IF status = 504 THEN Raise("ServiceUnavailableError", <<>>)
    ELSE Raise("UnexpectedError", <<<<"Unexpected HTTP_RESPONSE ">> \o Str(status)>>)

raise_exception_from_status(status, message) ==
    IF status = 401 THEN Raise("AuthenticationError", <<>>)
    ELSE IF status = 403 THEN Raise("AuthorizationError", <<message>>)
    ELSE IF status = 404 THEN Raise("NotFoundError", <<>>)
    ELSE IF status = 408 THEN Raise("RequestTimeoutError", <<>>)
    ELSE IF status = 426 THEN Raise("UpgradeRequiredError", <<>>)
    ELSE IF status = 429 THEN Raise("TooManyRequestsError", <<>>)
    ELSE IF status = 500 THEN Raise("ServerError", <<>>)
    ELSE IF status = 503 THEN Raise("ServiceUnavailableError", <<>>)
    ELSE IF status = 504 THEN Raise("GatewayTimeoutError", <<>>)
    ELSE Raise("UnexpectedError", <<<<"Unexpected HTTP_RESPONSE ">> \o Str(status)>>)

\* __init__: self.environment = environment or self.config.environment
HttpInit(cfg, environmentArg) ==
    IF environmentArg # "None" THEN environmentArg ELSE cfg.environment

\* the class hierarchy of requests.exceptions, as isinstance sees it
RequestsBases(class) ==
    CASE class = "requests.ReadTimeout" ->
            {"requests.ReadTimeout", "requests.Timeout", "requests.RequestException"}
      [] class = "requests.ConnectTimeout" ->
            {"requests.ConnectTimeout", "requests.ConnectionError", "requests.Timeout",
             "requests.RequestException"}
      [] class = "requests.SSLError" ->
            {"requests.SSLError", "requests.ConnectionError", "requests.RequestException"}
      [] class = "requests.ConnectionError" ->
            {"requests.ConnectionError", "requests.RequestException"}
      [] class = "requests.HTTPError" ->
            {"requests.HTTPError", "requests.RequestException"}
      [] class = "requests.Timeout" ->
            {"requests.Timeout", "requests.RequestException"}
      [] class = "requests.TooManyRedirects" ->
            {"requests.TooManyRedirects", "requests.RequestException"}
      [] OTHER -> {class}

isinstance(class, base) == base \in RequestsBases(class)

\* variant: the connection-failure test comes before the connect-timeout test
handle_exception_connection_first(exception) ==
    IF isinstance(exception, "requests.ReadTimeout")
        THEN Raise("ReadTimeoutError", <<ExceptionArg(exception)>>)
    ELSE IF isinstance(exception, "requests.ConnectionError")
        THEN Raise("ConnectionError", <<ExceptionArg(exception)>>)
    ELSE IF isinstance(exception, "requests.ConnectTimeout")
        THEN Raise("ConnectTimeoutError", <<ExceptionArg(exception)>>)
    ELSE IF isinstance(exception, "requests.HTTPError")
        THEN Raise("InvalidResponseError", <<ExceptionArg(exception)>>)
    ELSE IF isinstance(exception, "requests.Timeout")
        THEN Raise("TimeoutError", <<ExceptionArg(exception)>>)
    ELSE Raise("UnexpectedError", <<ExceptionArg(exception)>>)

\* variant: an exception of no known kind is raised again as it is
handle_exception_reraises_unknown(exception) ==
    IF isinstance(exception, "requests.ReadTimeout")
        THEN Raise("ReadTimeoutError", <<ExceptionArg(exception)>>)
    ELSE IF isinstance(exception, "requests.ConnectTimeout")
        THEN Raise("ConnectTimeoutError", <<ExceptionArg(exception)>>)
    ELSE IF isinstance(exception, "requests.ConnectionError")
        THEN Raise("ConnectionError", <<ExceptionArg(exception)>>)
    ELSE IF isinstance(exception, "requests.HTTPError")
        THEN Raise("InvalidResponseError", <<ExceptionArg(exception)>>)
    ELSE IF isinstance(exception, "requests.Timeout")
        THEN Raise("TimeoutError", <<ExceptionArg(exception)>>)
    ELSE Raise(exception, <<>>)

handle_exception(exception) ==
    IF isinstance(exception, "requests.ReadTimeout")
        THEN Raise("ReadTimeoutError", <<ExceptionArg(exception)>>)
    ELSE IF isinstance(exception, "requests.ConnectTimeout")
        THEN Raise("ConnectTimeoutError", <<ExceptionArg(exception)>>)
    ELSE IF isinstance(exception, "requests.ConnectionError")
        THEN Raise("ConnectionError", <<ExceptionArg(exception)>>)
    ELSE IF isinstance(exception, "requests.HTTPError")
        THEN Raise("InvalidResponseError", <<ExceptionArg(exception)>>)
    ELSE IF isinstance(exception, "requests.Timeout")
        THEN Raise("TimeoutError", <<ExceptionArg(exception)>>)
    ELSE Raise("UnexpectedError", <<ExceptionArg(exception)>>)

BasicPrefix == <<66, 97, 115, 105, 99, 32>>
BearerPrefix == <<66, 101, 97, 114, 101, 114, 32>>

\* the value of an expression that may raise
Value(v) == [raised |-> FALSE, class |-> "", value |-> v]
Raised(class) == [raised |-> TRUE, class |-> class, value |-> <<>>]

\* variant: the access token is looked at before the client credentials
authorization_header_token_first(cfg) ==
    IF has_access_token(cfg) THEN
        IF IsAscii(cfg.access_token)
        THEN Value(BearerPrefix \o cfg.access_token)
        ELSE Raised("UnicodeEncodeError")
    ELSE IF has_client_credentials(cfg) THEN
        IF IsAscii(cfg.client_id) /\ IsAscii(cfg.client_secret)
        THEN Value(BasicPrefix \o
                   Strip(RemoveByte(encodebytes(cfg.client_id \o <<58>> \o cfg.client_secret),
                                    NewLine), AsciiWhitespace))
        ELSE Raised("UnicodeEncodeError")
    ELSE
        IF IsAscii(cfg.public_key) /\ IsAscii(cfg.private_key)
        THEN Value(BasicPrefix \o
                   Strip(RemoveByte(encodebytes(cfg.public_key \o <<58>> \o cfg.private_key),
                                    NewLine), AsciiWhitespace))
        ELSE Raised("UnicodeEncodeError")

\* __authorization_header
authorization_header(cfg) ==
    IF has_client_credentials(cfg) THEN
        IF IsAscii(cfg.client_id) /\ IsAscii(cfg.client_secret)
        THEN Value(BasicPrefix \o
                   Strip(RemoveByte(encodebytes(cfg.client_id \o <<58>> \o cfg.client_secret),
                                    NewLine), AsciiWhitespace))
        ELSE Raised("UnicodeEncodeError")
    ELSE IF has_access_token(cfg) THEN
        IF IsAscii(cfg.access_token)
        THEN Value(BearerPrefix \o cfg.access_token)
        ELSE Raised("UnicodeEncodeError")
    ELSE
        IF IsAscii(cfg.public_key) /\ IsAscii(cfg.private_key)
        THEN Value(BasicPrefix \o
                   Strip(RemoveByte(encodebytes(cfg.public_key \o <<58>> \o cfg.private_key),
                                    NewLine), AsciiWhitespace))
        ELSE Raised("UnicodeEncodeError")

\* __headers; the verbs pass no header_overrides
headers(cfg, content_type) ==
    LET authorization == authorization_header(cfg)
        base == [Accept |-> "application/xml",
                 Authorization |-> authorization.value,
                 UserAgent |-> "Braintree Python Version",
                 AcceptEncoding |-> "gzip",
                 XApiVersion |-> "api_version",
                 ContentType |-> IF content_type = Xml THEN Xml ELSE "absent"]
    IN  IF authorization.raised THEN Raised(authorization.class) ELSE Value(base)

\* __request_body; params and files are opaque: "None" or a payload
request_body(content_type, params, files) ==
    IF content_type = Xml THEN
        [tuple |-> FALSE,
         data |-> IF params # "None" THEN <<"xml_from_dict", params>> ELSE <<"str", "">>,
         files |-> "None"]
    ELSE IF files = "None" THEN
        [tuple |-> FALSE, data |-> <<"object", params>>, files |-> "None"]
    ELSE
        [tuple |-> TRUE, data |-> <<"object", params>>, files |-> files]

\* variant: the base URL is prepended whatever the path begins with
full_path_always_prepends(cfg, path) == base_url(cfg) \o path

\* __full_path
full_path(cfg, path) ==
    IF StartsWith(path, base_url(cfg)) \/ StartsWith(path, graphql_base_url(cfg))
    THEN path
    ELSE base_url(cfg) \o path

\* http_do: the verify argument of session.send
verify(cfg, env) ==
    IF cfg.environment = Development
    THEN [check |-> FALSE, ssl_certificate |-> "None"]
    ELSE [check |-> TRUE, ssl_certificate |-> env]

\* http_do: what the prepared request and session.send are given
http_do_locals(cfg, env, http_verb, path, hdrs, body) ==
    [method |-> http_verb,
     url |-> full_path(cfg, path),
     headers |-> hdrs,
     data |-> body.data,
     files |-> IF body.tuple THEN body.files ELSE "None",
     verify |-> verify(cfg, env)]

\* variant: the session is closed by hand after send, so not when send raises
session_left_open_on_exception(out) ==
    IF out.kind = "exception" THEN "open" ELSE "closed"

\* http_do: the state of the session once the with block is left
session_after_with(out) == "closed"

----------------------------------------------------------------------------
(* Response bodies and their decoders *)

\* lexical units of a body: whitespace, a JSON document, an XML document
BodyTokens == {" ", "{}", "<a/>"}
Whitespace == {" "}
Bodies == SeqsUpTo(BodyTokens, MaxBodyLen)

\* json.loads: one JSON document, whitespace around it allowed
json_loads(body) ==
    IF Strip(body, Whitespace) = <<"{}">>
    THEN Value(Decoded("json", Strip(body, Whitespace)))
    ELSE Raised("json.JSONDecodeError")

\* XmlUtil.dict_from_xml: one XML document, whitespace around it allowed
dict_from_xml(body) ==
    IF Strip(body, Whitespace) = <<"<a/>">>
    THEN Value(Decoded("xml", Strip(body, Whitespace)))
    ELSE Raised("xml.ExpatError")

\* _make_request, lines 91-100: what the call makes of status and response_body
classify(content_type, status, response_body) ==
    IF is_error_status(status) THEN raise_exception_from_status(status, None)
    ELSE IF Len(Strip(response_body, Whitespace)) = 0 THEN Return(EmptyMapping)
    ELSE LET decoded == IF content_type = Json THEN json_loads(response_body)
                        ELSE dict_from_xml(response_body)
         IN  IF decoded.raised THEN Raise(decoded.class, <<>>) ELSE Return(decoded.value)

\* variant: the exception is wrapped whatever the flag says
on_exception_always_wraps(cfg, exception) == handle_exception(exception)

\* _make_request, lines 85-89: what the call makes of an exception of http_do
on_exception(cfg, exception) ==
    IF cfg.wrap_http_exceptions THEN handle_exception(exception)
    ELSE Raise(exception, <<>>)

----------------------------------------------------------------------------
(* What the transport can produce *)

Statuses == {200, 201, 204, 422,
             401, 403, 404, 408, 426, 429, 500, 503, 504,
             202, 409, 502}

RaisedByTransport ==
    {"requests.ReadTimeout", "requests.ConnectTimeout", "requests.SSLError",
     "requests.ConnectionError", "requests.HTTPError", "requests.Timeout",
     "requests.TooManyRedirects", "ValueError"}

Response(status, body) ==
    [kind |-> "response", status |-> status, body |-> body, exception |-> ""]
Thrown(class) ==
    [kind |-> "exception", status |-> 0, body |-> <<>>, exception |-> class]
NoOutcome == [kind |-> "none", status |-> 0, body |-> <<>>, exception |-> ""]

Outcomes ==
    {Response(st, b) : st \in Statuses, b \in Bodies}
        \cup {Thrown(c) : c \in RaisedByTransport}

FewOutcomes ==
    {Response(200, <<"<a/>">>), Response(404, <<>>), Thrown("requests.ConnectTimeout")}

----------------------------------------------------------------------------
(* The call *)

NoCall == [http_verb |-> "", path |-> <<>>, content_type |-> "", params |-> "None",
           files |-> "None"]
NoRequest == [headers |-> <<>>, request_body |-> <<>>, full_path |-> <<>>]
NoWire == [method |-> "", url |-> <<>>, headers |-> <<>>, data |-> <<>>, files |-> "None",
           verify |-> [check |-> TRUE, ssl_certificate |-> "None"]]

Params == {"None", "params"}

\* _make_request, lines 78-81: headers, request_body and full_path are built
\* before the try block, so an exception raised here leaves the call as it is
_make_request(http_verb, path, content_type, params, files) ==
    /\ call' = [http_verb |-> http_verb, path |-> path, content_type |-> content_type,
                params |-> params, files |-> files]
    /\ LET hdrs == headers(config, content_type)
       IN  IF hdrs.raised
           THEN /\ result' = Raise(hdrs.class, <<>>)
                /\ pc' = "done"
                /\ UNCHANGED request
           ELSE /\ request' = [headers |-> hdrs.value,
                               request_body |-> request_body(content_type, params, files),
                               full_path |-> full_path(config, path)]
                /\ pc' = "http_do"
                /\ UNCHANGED result
    /\ UNCHANGED <<config, environment, session, opened, sends, wire, outcome>>

post(path, params) ==
    /\ pc = "idle"
    /\ _make_request("POST", path, Xml, params, "None")

delete(path) ==
    /\ pc = "idle"
    /\ _make_request("DELETE", path, Xml, "None", "None")

get(path) ==
    /\ pc = "idle"
    /\ _make_request("GET", path, Xml, "None", "None")

put(path, params) ==
    /\ pc = "idle"
    /\ _make_request("PUT", path, Xml, params, "None")

post_multipart(path, params) ==
    /\ pc = "idle"
    /\ _make_request("POST", path, Multipart, params, "files")

\* _make_request with the JSON content type, as a GraphQL caller uses it
post_json(path, params) ==
    /\ pc = "idle"
    /\ _make_request("POST", path, Json, params, "None")

\* http_do, lines 102-116: the locals are computed and the session is entered.
\* _make_request runs http_do on the object config.http_strategy() returns, an
\* Http over the same config; environment is that object's self.environment.
http_do_enter ==
    /\ pc = "http_do"
    /\ wire' = http_do_locals(config, environment, call.http_verb, request.full_path,
                              request.headers, request.request_body)
    /\ session' = "open"
    /\ opened' = opened + 1
    /\ pc' = "session"
    /\ UNCHANGED <<config, environment, call, request, sends, outcome, result>>

\* http_do, lines 117-139: the request is sent once; the transport answers or
\* raises, and either way the with block is left. The body is response.content
\* or response.text, whichever the interpreter's version selects.
http_do_send(outs) ==
    /\ pc = "session"
    /\ \E out \in outs :
        /\ outcome' = out
        /\ session' = session_after_with(out)
    /\ sends' = sends + 1
    /\ pc' = "returned"
    /\ UNCHANGED <<config, environment, call, request, opened, wire, result>>

\* _make_request, lines 85-100
_make_request_finish ==
    /\ pc = "returned"
    /\ result' = IF outcome.kind = "exception"
                 THEN on_exception(config, outcome.exception)
                 ELSE classify(call.content_type, outcome.status, outcome.body)
    /\ pc' = "done"
    /\ UNCHANGED <<config, environment, call, request, session, opened, sends, wire, outcome>>

----------------------------------------------------------------------------
(* Specifications *)

Paths == SeqsUpTo(PathChars, MaxPathLen)
\* a relative path, one under the base URL, one under the GraphQL base URL
SomePaths == {<<"/">>, <<"h", "/", "/">>, <<"h", "g">>}

EnvironmentArgs == Environments \cup {"None"}

InitOver(configs, environmentArgs) ==
    /\ config \in configs
    /\ \E arg \in environmentArgs : environment = HttpInit(config, arg)
    /\ pc = "idle"
    /\ call = NoCall
    /\ request = NoRequest
    /\ session = "none"
    /\ opened = 0
    /\ sends = 0
    /\ wire = NoWire
    /\ outcome = NoOutcome
    /\ result = NoResult

NextOver(paths, outs) ==
    \/ \E path \in paths : get(path)
    \/ \E path \in paths : delete(path)
    \/ \E path \in paths, params \in Params : post(path, params)
    \/ \E path \in paths, params \in Params : put(path, params)
    \/ \E path \in paths, params \in Params : post_multipart(path, params)
    \/ \E path \in paths, params \in Params : post_json(path, params)
    \/ http_do_enter
    \/ http_do_send(outs)
    \/ _make_request_finish

AsciiKeys == <<<<NoneBytes, NoneBytes>>, NoneBytes, <<<<112, 107>>, <<115, 107>>>>>>
NonAsciiKeys == <<<<NoneBytes, NoneBytes>>, NoneBytes, <<<<112, 233>>, <<115, 107>>>>>>

\* every response and exception, over a key-pair configuration
Init ==
    InitOver({Config(Sandbox, wrap, cred) :
                  wrap \in BOOLEAN, cred \in {AsciiKeys, NonAsciiKeys}}, {"None"})
Next == NextOver(SomePaths, Outcomes)
Spec == Init /\ [][Next]_vars

\* every configuration: credentials present, environments, environment argument
InitConfig ==
    InitOver({Config(env, TRUE, cred) : env \in Environments, cred \in Credentials},
             EnvironmentArgs)
NextConfig == NextOver({<<"/">>}, FewOutcomes)
SpecConfig == InitConfig /\ [][NextConfig]_vars

\* every path
InitUrl == InitOver({Config(Sandbox, TRUE, AsciiKeys)}, {"None"})
NextUrl == NextOver(Paths, FewOutcomes)
SpecUrl == InitUrl /\ [][NextUrl]_vars

----------------------------------------------------------------------------
(* Vocabulary of the properties *)

SuccessStatuses == {200, 201, 204, 422}

\* the typed Error taxonomy
Taxonomy ==
    {"AuthenticationError", "AuthorizationError", "NotFoundError", "RequestTimeoutError",
     "UpgradeRequiredError", "TooManyRequestsError", "ServerError",
     "ServiceUnavailableError", "GatewayTimeoutError", "UnexpectedError",
     "ConnectionError", "ReadTimeoutError", "ConnectTimeoutError", "TimeoutError",
     "InvalidResponseError"}

\* the status table of the specification
StatusTable ==
    (401 :> "AuthenticationError") @@ (403 :> "AuthorizationError") @@
    (404 :> "NotFoundError") @@ (408 :> "RequestTimeoutError") @@
    (426 :> "UpgradeRequiredError") @@ (429 :> "TooManyRequestsError") @@
    (500 :> "ServerError") @@ (503 :> "ServiceUnavailableError") @@
    (504 :> "GatewayTimeoutError")

\* the transport-exception table of the specification, class by class
ExceptionTable ==
    ("requests.ReadTimeout" :> "ReadTimeoutError") @@
    ("requests.ConnectTimeout" :> "ConnectTimeoutError") @@
    ("requests.SSLError" :> "ConnectionError") @@
    ("requests.ConnectionError" :> "ConnectionError") @@
    ("requests.HTTPError" :> "InvalidResponseError") @@
    ("requests.Timeout" :> "TimeoutError") @@
    ("requests.TooManyRedirects" :> "UnexpectedError") @@
    ("ValueError" :> "UnexpectedError")

\* the number a sequence of decimal digits writes, -1 if it is not one
DigitValue(c) ==
    CASE c = "0" -> 0 [] c = "1" -> 1 [] c = "2" -> 2 [] c = "3" -> 3 [] c = "4" -> 4
      [] c = "5" -> 5 [] c = "6" -> 6 [] c = "7" -> 7 [] c = "8" -> 8 [] c = "9" -> 9
      [] OTHER -> -1

RECURSIVE DecimalValue(_)
DecimalValue(ds) ==
    IF ds = <<>> \/ DigitValue(ds[Len(ds)]) < 0 THEN -1
    ELSE IF Len(ds) = 1 THEN DigitValue(ds[1])
    ELSE LET high == DecimalValue(SubSeq(ds, 1, Len(ds) - 1))
         IN  IF high < 0 THEN -1 ELSE high * 10 + DigitValue(ds[Len(ds)])

\* s begins with p, position by position
HasPrefix(s, p) == Len(p) <= Len(s) /\ \A i \in 1..Len(p) : s[i] = p[i]

\* base64 decoding of a padded text, <<-2>> if it is not one
B64Index(c) ==
    IF c >= 65 /\ c <= 90 THEN c - 65
    ELSE IF c >= 97 /\ c <= 122 THEN c - 71
    ELSE IF c >= 48 /\ c <= 57 THEN c + 4
    ELSE IF c = 43 THEN 62
    ELSE IF c = 47 THEN 63
    ELSE -1

RECURSIVE B64Decode(_)
B64Decode(s) ==
    IF s = <<>> THEN <<>>
    ELSE IF Len(s) < 4 \/ B64Index(s[1]) < 0 \/ B64Index(s[2]) < 0 THEN <<-2>>
    ELSE LET a == B64Index(s[1])
             b == B64Index(s[2])
             c == B64Index(s[3])
             d == B64Index(s[4])
         IN  IF s[3] = 61 /\ s[4] = 61 /\ Len(s) = 4 THEN <<a * 4 + b \div 16>>
             ELSE IF c >= 0 /\ s[4] = 61 /\ Len(s) = 4
                 THEN <<a * 4 + b \div 16, (b % 16) * 16 + c \div 4>>
             ELSE IF c >= 0 /\ d >= 0
                 THEN <<a * 4 + b \div 16, (b % 16) * 16 + c \div 4, (c % 4) * 64 + d>>
                      \o B64Decode(SubSeq(s, 5, Len(s)))
             ELSE <<-2>>

\* header is "Basic " followed by the base64 text of user:password
IsBasicOf(header, user, password) ==
    /\ HasPrefix(header, <<66, 97, 115, 105, 99, 32>>)
    /\ B64Decode(SubSeq(header, 7, Len(header))) = user \o <<58>> \o password

\* header is "Bearer " followed by the token
IsBearerOf(header, token) ==
    /\ HasPrefix(header, <<66, 101, 97, 114, 101, 114, 32>>)
    /\ SubSeq(header, 8, Len(header)) = token

Blank(body) == \A i \in 1..Len(body) : body[i] = " "

Answered == pc = "done" /\ outcome.kind = "response"
Threw == pc = "done" /\ outcome.kind = "exception"

----------------------------------------------------------------------------
(* Properties *)

\* C1: a response whose status is not 200, 201, 204 or 422 makes the call raise
\* the error the status table names, an unlisted status raising UnexpectedError
\* whose message is "Unexpected HTTP_RESPONSE " followed by the status written
\* in decimal.
StatusErrorRaised ==
    (Answered /\ outcome.status \notin SuccessStatuses) =>
        /\ result.kind = "raise"
        /\ IF outcome.status \in DOMAIN StatusTable
           THEN result.class = StatusTable[outcome.status]
           ELSE /\ result.class = "UnexpectedError"
                /\ Len(result.args) = 1
                /\ Head(result.args[1]) = "Unexpected HTTP_RESPONSE "
                /\ DecimalValue(Tail(result.args[1])) = outcome.status

StatusErrorRaisedWitness ==
    /\ Answered
    /\ outcome.status = 409
    /\ result.class = "UnexpectedError"
    /\ result.args = <<<<"Unexpected HTTP_RESPONSE ", "4", "0", "9">>>>

\* C2: the AuthorizationError raised for status 403 is given a message, not None.
ForbiddenCarriesMessage ==
    (Answered /\ outcome.status = 403) =>
        /\ result.class = "AuthorizationError"
        /\ Len(result.args) = 1
        /\ result.args[1] # None

\* C3: a response whose status is 200, 201, 204 or 422 raises no status error;
\* the call returns the empty mapping for a blank body, and otherwise ends as the
\* JSON decoder does on the body when the content type is JSON, as the XML decoder
\* does for the other content types.
SuccessDecoded ==
    (Answered /\ outcome.status \in SuccessStatuses) =>
        /\ result.class \notin Taxonomy
        /\ Blank(outcome.body) => result = Return(EmptyMapping)
        /\ ~Blank(outcome.body) =>
            LET decoded == IF call.content_type = Json THEN json_loads(outcome.body)
                           ELSE dict_from_xml(outcome.body)
            IN  /\ result = IF decoded.raised THEN Raise(decoded.class, <<>>)
                            ELSE Return(decoded.value)
                /\ result.kind = "return" =>
                       (result.value.decoder = "json") = (call.content_type = Json)
                /\ result.kind = "raise" =>
                       (result.class = "json.JSONDecodeError") = (call.content_type = Json)

SuccessDecodedWitness ==
    /\ Answered
    /\ outcome.status = 422
    /\ outcome.body = <<" ", "<a/>">>
    /\ call.content_type = Multipart
    /\ result = Return(Decoded("xml", <<"<a/>">>))

\* C4: the Authorization header built for a call, and the one handed to the
\* session, is "Basic " + base64(client_id:client_secret) when client id and secret
\* are present, else "Bearer " + access_token when an access token is present, else
\* "Basic " + base64(public_key:private_key), whatever other credentials are present.
OneAuthorizationScheme ==
    LET expected(header) ==
            IF config.client_id # NoneBytes /\ config.client_secret # NoneBytes
            THEN /\ IsBasicOf(header, config.client_id, config.client_secret)
                 /\ ~IsBearerOf(header, config.access_token)
            ELSE IF config.access_token # NoneBytes
            THEN /\ IsBearerOf(header, config.access_token)
                 /\ ~HasPrefix(header, <<66, 97, 115, 105, 99, 32>>)
            ELSE /\ IsBasicOf(header, config.public_key, config.private_key)
                 /\ ~HasPrefix(header, <<66, 101, 97, 114, 101, 114, 32>>)
    IN  /\ pc = "http_do" => expected(request.headers.Authorization)
        /\ opened = 1 =>
            /\ expected(wire.headers.Authorization)
            /\ \A i \in 1..Len(wire.headers.Authorization) :
                   wire.headers.Authorization[i] \notin {10, 13}

OneAuthorizationSchemeWitness ==
    /\ pc = "returned"
    /\ sends = 1
    /\ config.client_id # NoneBytes
    /\ config.access_token # NoneBytes
    /\ config.public_key # NoneBytes
    \* "Basic Y2k6Y3M=": base64 of "ci:cs"
    /\ wire.headers.Authorization = <<66, 97, 115, 105, 99, 32, 89, 50, 107, 54, 89, 51, 77, 61>>

\* C5: the URL handed to the session is the path itself when the path begins with
\* the base URL or the GraphQL base URL, and the base URL followed by the path
\* otherwise, although the path is resolved in _make_request and again in http_do.
FinalUrl ==
    opened = 1 =>
        wire.url = IF \/ HasPrefix(call.path, config.base_url)
                      \/ HasPrefix(call.path, config.graphql_base_url)
                   THEN call.path
                   ELSE config.base_url \o call.path

FinalUrlWitness ==
    /\ pc = "returned"
    /\ sends = 1
    /\ call.path = <<"h">>
    /\ wire.url = <<"h", "/", "h">>

\* C6: with wrap_http_exceptions false, an exception of the transport reaches the
\* caller as the same exception: nothing of the taxonomy is raised and nothing is
\* returned.
RawExceptionPropagates ==
    (Threw /\ ~config.wrap_http_exceptions) =>
        /\ result.kind = "raise"
        /\ result.class = outcome.exception
        /\ result.class \notin Taxonomy
        /\ result.args = <<>>
        /\ result.value = NoValue

RawExceptionPropagatesWitness ==
    /\ Threw
    /\ ~config.wrap_http_exceptions
    /\ outcome.exception = "requests.ConnectionError"
    /\ result = Raise("requests.ConnectionError", <<>>)

\* C7: with wrap_http_exceptions true, an exception of the transport is raised as
\* the error the exception table names for its class, built from that exception:
\* a connect timeout gives ConnectTimeoutError and a read timeout ReadTimeoutError,
\* never ConnectionError or TimeoutError.
WrappedByFirstMatch ==
    (Threw /\ config.wrap_http_exceptions) =>
        /\ result.kind = "raise"
        /\ result.class = ExceptionTable[outcome.exception]
        /\ result.args = <<<<"exception", outcome.exception>>>>

WrappedByFirstMatchWitness ==
    /\ Threw
    /\ config.wrap_http_exceptions
    /\ outcome.exception = "requests.ConnectTimeout"
    /\ result.class = "ConnectTimeoutError"

AllFailuresInTaxonomy ==
    (pc = "done" /\ config.wrap_http_exceptions) =>
        result.kind = "return" \/ result.class \in Taxonomy

\* C9 as amended: with wrap_http_exceptions true, every exception thrown by the
\* transport and every error status ends the call with an error of the taxonomy.
TransportFailuresInTaxonomy ==
    (pc = "done" /\ config.wrap_http_exceptions) =>
        /\ outcome.kind = "exception" =>
               result.kind = "raise" /\ result.class \in Taxonomy
        /\ (outcome.kind = "response" /\ outcome.status \notin SuccessStatuses) =>
               result.kind = "raise" /\ result.class \in Taxonomy

TransportFailuresInTaxonomyWitness ==
    /\ Threw
    /\ config.wrap_http_exceptions
    /\ outcome.exception = "ValueError"
    /\ result.class = "UnexpectedError"

\* C10: certificate verification is off exactly when the environment of the Http
\* object is Development, and otherwise the certificate of that same environment
\* is verified against.
VerifyFollowsEnvironment ==
    opened = 1 =>
        /\ (wire.verify.check = FALSE) = (environment = Development)
        /\ environment # Development =>
               wire.verify = [check |-> TRUE, ssl_certificate |-> environment]

====
